---- MODULE Spec2Model ----
(***************************************************************************)
(* Model of the QAI pull-request pipeline (class QAIPipeline and main of   *)
(* the pipeline script): scenario normalisation and capping, the           *)
(* results / suites / tests store, the call to the execution agent and the *)
(* final verification of the stored hierarchy.                             *)
(***************************************************************************)
EXTENDS Integers, Sequences, FiniteSets, TLC

VARIABLES
    drafts,          \* completion.choices[0].message.parsed.scenarios for the PR
    results,         \* table results: sequence of rows, id = index
    suites,          \* table suites:  sequence of rows, id = index
    tests,           \* table tests:   set of rows, name is the conflict key
    scenariosFile,   \* test-scenarios.json (NoFile until written)
    summaryEntries,  \* number of entries appended to codebase-summary.txt
    proc,            \* the running process: mode, position and QAIPipeline fields
    log,             \* external calls issued by the current process, in order
    dispatched,      \* run ids the agent endpoint has been called with
    executions,      \* number of processes started so far
    history,         \* totalTests read by each verification of a fully persisted run
    family,          \* which input family this behaviour explores
    built,           \* builder output for the generated drafts (pure check)
    snapshot,        \* a hierarchy snapshot handed to verifyFinalResults (pure check)
    verdict,         \* what verifyFinalResults returned for snapshot
    apiSuites,       \* Express API: table suites as the API reads and writes it
    apiTests,        \* Express API: table tests as the API reads and writes it
    apiResponse,     \* Express API: the request last handled and its response
    summaryFile,     \* update-summary.js: codebase-summary.txt, split at '=== UPDATE '
    summaryRun,      \* update-summary.js: what the last run appended and saved
    variant,         \* app.js: which of the two scripts the page runs
    localStorage,    \* app.js: the origin's localStorage, shared by the tabs
    tabs,            \* app.js: per tab, the DOM state and the in-memory session
    pending,         \* app.js: per tab, storage events queued for delivery
    lastAct          \* app.js: the handler that ran last and its inputs

apiVars == <<apiSuites, apiTests, apiResponse>>
summaryVars == <<summaryFile, summaryRun>>
appVars == <<variant, localStorage, tabs, pending, lastAct>>
webVars == <<apiVars, summaryVars, appVars>>

vars == <<drafts, results, suites, tests, scenariosFile, summaryEntries, proc, log,
          dispatched, executions, history, family, built, snapshot, verdict, webVars>>

storeVars == <<results, suites, tests>>
pureVars == <<family, built, snapshot, verdict>>

-----------------------------------------------------------------------------
(* Bounds of the model *)

MaxDrafts == 2             \* drafts generated for the PR in the pipeline
MaxExecutions == 2         \* processes started (a run and its rerun)
MaxPersonaDrafts == 6      \* drafts of the persona input family
MaxDedupDrafts == 5        \* drafts of the duplicate-description input family
MaxSummaryDrafts == 3      \* drafts of the blank-summary input family
MaxSnapshotSuites == 2     \* suites of a hierarchy snapshot
MaxSnapshotTests == 3      \* tests of a hierarchy snapshot
MaxSuiteDrafts == 5        \* drafts of the one-description-per-persona input family
MaxRollupDrafts == 3       \* drafts of the run whose results are rolled up
MaxBatch == 1              \* agent results handed to one updateTestResults call

(* Program constants *)

ScenarioCap == 4
SuiteCap == 4

NoId == 0
NoFile == [exists |-> FALSE, content |-> <<>>]
NoResult == [run_status |-> "none", suites |-> <<>>]

Personas == {"admin", "guest"}
Descriptions == {"d1", "d2"}
Summaries == {"s1"}
Types == {"e2e"}

Draft(p, d, s, t) == [persona |-> p, description |-> d, summary |-> s, type |-> t]

PipelineDrafts == {Draft(p, d, s, t) : p \in Personas, d \in Descriptions,
                                       s \in Summaries, t \in Types}

\* inputs of the builder check: many personas; duplicates inside a persona; blank
\* summaries and an integer-like persona
PersonaDrafts == {Draft(p, "d1", "s1", "e2e") : p \in {"a", "b", "c", "d", "e"}}
DedupDrafts == {Draft(p, d, s, "e2e") : p \in {"admin", ""}, d \in {"d1", "d2"},
                                        s \in {"s1", "s2"}}
SummaryDrafts == {Draft(p, d, s, "e2e") : p \in {"admin", "7"}, d \in {"d1", "d2"},
                                          s \in {"", " ", "s1"}}

SuiteDrafts == {Draft(p, "about " \o p, "s1", "e2e") : p \in {"a", "b", "c", "d", "e"}}

RollupDrafts == {Draft("admin", "d1", "s1", "e2e"), Draft("admin", "d2", "s1", "e2e"),
                 Draft("guest", "d3", "s1", "e2e")}

NotBuilt == [done |-> FALSE, scenarios |-> <<>>, personas |-> <<>>, records |-> <<>>]

SeqsUpTo(S, n) == UNION {[1..k -> S] : k \in 0..n}

-----------------------------------------------------------------------------
(* analyzePR: cap and summary synthesis *)

\* parsedScenarios.slice(0, 4) when longer than 4
capScenarios(parsed) ==
    IF Len(parsed) > ScenarioCap THEN SubSeq(parsed, 1, ScenarioCap) ELSE parsed

\* s.summary.trim() is falsy for the empty and the all-blank string
BlankSummary(s) == s \in {"", " "}

summaryTemplate(s) ==
    "On the app, you are testing " \o s.type \o " scenario: " \o s.description

withSummary(s) ==
    [s EXCEPT !.summary = IF BlankSummary(s.summary) THEN summaryTemplate(s)
                          ELSE s.summary]

analyzeScenarios(parsed) ==
    LET capped == capScenarios(parsed)
    IN  [i \in 1..Len(capped) |-> withSummary(capped[i])]

-----------------------------------------------------------------------------
(* uploadScenariosToDatabase: grouping, persona cap, dedup, records *)

\* scenario.persona || 'default'
personaOf(s) == IF s.persona = "" THEN "default" ELSE s.persona

\* variant: one key per scenario
insertionOrderPerScenario(scs) == [i \in 1..Len(scs) |-> personaOf(scs[i])]

\* keys of personaGroups in the order the reduce creates them
RECURSIVE insertionOrder(_)
insertionOrder(scs) ==
    IF Len(scs) = 0 THEN <<>>
    ELSE LET before == insertionOrder(SubSeq(scs, 1, Len(scs) - 1))
             p == personaOf(scs[Len(scs)])
         IN  IF \E i \in 1..Len(before) : before[i] = p THEN before
             ELSE Append(before, p)

\* a key that is a canonical array index is an integer key of the object
ToArrayIndex(k) == CASE k = "7" -> 7 [] k = "12" -> 12 [] OTHER -> -1

RECURSIVE ascendingIndexKeys(_)
ascendingIndexKeys(S) ==
    IF S = {} THEN <<>>
    ELSE LET m == CHOOSE k \in S : \A o \in S : ToArrayIndex(k) <= ToArrayIndex(o)
         IN  <<m>> \o ascendingIndexKeys(S \ {m})

\* Object.keys: integer keys ascending, then string keys in insertion order
ObjectKeys(inserted) ==
    LET ints == {inserted[i] : i \in {j \in 1..Len(inserted) :
                                        ToArrayIndex(inserted[j]) >= 0}}
    IN  ascendingIndexKeys(ints)
          \o SelectSeq(inserted, LAMBDA k : ToArrayIndex(k) < 0)

\* personaGroups[persona]
personaGroup(scs, persona) == SelectSeq(scs, LAMBDA s : personaOf(s) = persona)

\* Object.keys(personaGroups).slice(0, 4)
limitedPersonas(scs) ==
    LET keys == ObjectKeys(insertionOrder(scs))
    IN  IF Len(keys) > SuiteCap THEN SubSeq(keys, 1, SuiteCap) ELSE keys

\* Array.from(new Map(personaScenarios.map(s => [s.description, s])).values()):
\* one entry per description, at the position of its first occurrence, holding
\* the last scenario with that description
RECURSIVE uniqueScenarios(_)
uniqueScenarios(ps) ==
    IF Len(ps) = 0 THEN <<>>
    ELSE LET before == uniqueScenarios(SubSeq(ps, 1, Len(ps) - 1))
             s == ps[Len(ps)]
         IN  IF \E i \in 1..Len(before) : before[i].description = s.description
             THEN [i \in 1..Len(before) |->
                      IF before[i].description = s.description THEN s ELSE before[i]]
             ELSE Append(before, s)

testRecord(suiteId, scenario) ==
    [suite_id |-> suiteId, name |-> scenario.description, summary |-> scenario.summary,
     test_success |-> "null", run_status |-> "RUNNING"]

testRecords(suiteId, ps) ==
    LET u == uniqueScenarios(ps)
    IN  [i \in 1..Len(u) |-> testRecord(suiteId, u[i])]

-----------------------------------------------------------------------------
(* The store *)

Range(f) == {f[i] : i \in DOMAIN f}

\* ON CONFLICT DO UPDATE cannot touch one row twice in a single statement
conflictInBatch(records) ==
    \E i, j \in 1..Len(records) : i # j /\ records[i].name = records[j].name

\* variant: a plain insert, which adds rows whatever their names
insertTests(table, records) == table \cup Range(records)

\* overall_result: {} of a new run, and the counts object updateTestResults writes
EmptyResult == [empty |-> TRUE, passed |-> 0, failed |-> 0, total |-> 0]

overallResult(passed, total) ==
    [empty |-> FALSE, passed |-> passed, failed |-> total - passed, total |-> total]

\* prData, lines 181-186
prData == [run_status |-> "RUNNING", overall_result |-> EmptyResult]

\* .upsert(testRecords, { onConflict: 'name' })
upsertTests(table, records) ==
    {t \in table : \A i \in 1..Len(records) : records[i].name # t.name}
        \cup Range(records)

\* .update({ run_status }).eq('id', id)
updateRunStatus(table, id, status) ==
    [table EXCEPT ![id] = [@ EXCEPT !.run_status = status]]

\* ids of the suites rows with result_id = runId, ascending
suiteIdsOf(table, runId) ==
    SelectSeq([i \in 1..Len(table) |-> i], LAMBDA i : table[i].result_id = runId)

\* .select('*, suites(*, tests(*))').eq('id', id).single()
readHierarchy(runId) ==
    LET ids == suiteIdsOf(suites, runId)
    IN  [run_status |-> results[runId].run_status,
         suites |-> [k \in 1..Len(ids) |->
                        [name |-> suites[ids[k]].name,
                         tests |-> {t \in tests : t.suite_id = ids[k]}]]]

-----------------------------------------------------------------------------
(* verifyFinalResults *)

\* result.suites?.reduce((acc, s) => acc + (s.tests?.length || 0), 0) || 0
RECURSIVE countTests(_)
countTests(ss) ==
    IF Len(ss) = 0 THEN 0
    ELSE countTests(SubSeq(ss, 1, Len(ss) - 1)) + Cardinality(ss[Len(ss)].tests)

\* variant: a test that never ran counts as passed
RECURSIVE countNotFailed(_)
countNotFailed(ss) ==
    IF Len(ss) = 0 THEN 0
    ELSE countNotFailed(SubSeq(ss, 1, Len(ss) - 1))
           + Cardinality({t \in ss[Len(ss)].tests : t.test_success # "false"})

\* ... acc + (s.tests?.filter(t => t.test_success === true).length || 0) ...
RECURSIVE countPassed(_)
countPassed(ss) ==
    IF Len(ss) = 0 THEN 0
    ELSE countPassed(SubSeq(ss, 1, Len(ss) - 1))
           + Cardinality({t \in ss[Len(ss)].tests : t.test_success = "true"})

totalTests(result) == countTests(result.suites)

passedTests(result) == countPassed(result.suites)

overallSuccess(result) ==
    \/ result.run_status = "PASSED"
    \/ passedTests(result) = totalTests(result) /\ totalTests(result) > 0

\* variant: a missing row is taken for a pass
verifyMissingPasses(result) ==
    IF result = NoResult THEN "true"
    ELSE IF overallSuccess(result) THEN "true" ELSE "false"

\* the value verifyFinalResults returns for the row it read
verifyFinalResults(result) ==
    IF result = NoResult THEN "undefined"
    ELSE IF overallSuccess(result) THEN "true" ELSE "false"

\* variant: only an explicit false counts as a failure
TruthyUnlessFalse(v) == v # "false"

\* if (testSuccess) / if (!success): undefined is falsy
Truthy(v) == v = "true"

-----------------------------------------------------------------------------
(* The process: main and the QAIPipeline methods, one action per awaited step *)

Modes == {"full", "analyze", "test", "update"}

Idle == [mode |-> "none", pc |-> "idle", up |-> "idle", endpoint |-> FALSE,
         scenarios |-> <<>>, resultId |-> NoId, suiteIds |-> <<>>, index |-> 0,
         suiteId |-> NoId, response |-> "none", result |-> NoResult,
         testSuccess |-> "unset", clean |-> TRUE, exitCode |-> -1]

Logged(e) == log' = Append(log, e)

\* process.exit(code), or main running to its end (code 0)
Exit(code) == [proc EXCEPT !.pc = "exited", !.exitCode = code]

\* position of the upload loop after the iteration for persona number i
loopNext(i, n) == IF i <= n THEN "insert_suite" ELSE "done"

\* main, lines 438-450: a new process; this.resultId is undefined
Start(m, ep) ==
    /\ proc.pc \in {"idle", "exited"}
    /\ executions < MaxExecutions
    /\ executions' = executions + 1
    /\ proc' = [Idle EXCEPT !.mode = m, !.endpoint = ep,
                            !.pc = CASE m \in {"full", "analyze"} -> "analyzePR"
                                     [] m = "test" -> "load_scenarios"
                                     [] OTHER -> "update"]
    /\ log' = <<>>
    /\ UNCHANGED <<drafts, storeVars, scenariosFile, summaryEntries, dispatched,
                   history, pureVars, webVars>>

\* variant: the run row is created before the fetches are made
UpstreamErrorAfterInsert ==
    /\ proc.pc = "analyzePR"
    /\ results' = Append(results, prData)
    /\ proc' = Exit(1)
    /\ Logged("insert_run")
    /\ UNCHANGED <<drafts, suites, tests, scenariosFile, summaryEntries, dispatched,
                   executions, history, pureVars, webVars>>

\* analyzePR: a metadata fetch or the completion call throws; main's catch ends the process with code 1
UpstreamError ==
    /\ proc.pc = "analyzePR"
    /\ proc' = Exit(1)
    /\ UNCHANGED <<drafts, storeVars, scenariosFile, summaryEntries, log, dispatched,
                   executions, history, pureVars, webVars>>

\* analyzePR, lines 100-116: cap, synthesize summaries, save the file, start the upload
GenerateScenarios ==
    /\ proc.pc = "analyzePR"
    /\ LET scenarios == analyzeScenarios(drafts)
       IN  /\ proc' = [proc EXCEPT !.scenarios = scenarios, !.pc = "await_upload",
                                   !.up = "insert_run"]
           /\ scenariosFile' = [exists |-> TRUE, content |-> scenarios]
    /\ UNCHANGED <<drafts, storeVars, summaryEntries, log, dispatched, executions, history,
                   pureVars, webVars>>

\* uploadScenariosToDatabase, lines 188-200: the results row is inserted
InsertRun ==
    /\ proc.up = "insert_run"
    /\ results' = Append(results, prData)
    /\ proc' = [proc EXCEPT !.resultId = Len(results) + 1, !.suiteIds = <<>>,
                            !.index = 1,
                            !.up = loopNext(1, Len(limitedPersonas(proc.scenarios)))]
    /\ Logged("insert_run")
    /\ UNCHANGED <<drafts, suites, tests, scenariosFile, summaryEntries, dispatched,
                   executions, history, pureVars, webVars>>

\* lines 194-197: the insert is rejected; the method returns
InsertRunError ==
    /\ proc.up = "insert_run"
    /\ proc' = [proc EXCEPT !.up = "done", !.clean = FALSE]
    /\ Logged("insert_run_error")
    /\ UNCHANGED <<drafts, storeVars, scenariosFile, summaryEntries, dispatched,
                   executions, history, pureVars, webVars>>

\* lines 214-232: the suite row of the current persona is inserted
InsertSuite ==
    /\ proc.up = "insert_suite"
    /\ LET persona == limitedPersonas(proc.scenarios)[proc.index]
       IN  /\ suites' = Append(suites, [result_id |-> proc.resultId,
                                        name |-> persona \o " Agent Suite"])
           /\ proc' = [proc EXCEPT !.suiteId = Len(suites) + 1,
                                   !.suiteIds = Append(@, <<persona, Len(suites) + 1>>),
                                   !.up = "upsert_tests"]
    /\ Logged("insert_suite")
    /\ UNCHANGED <<drafts, results, tests, scenariosFile, summaryEntries, dispatched,
                   executions, history, pureVars, webVars>>

\* variant: a rejected suite insert ends the upload
InsertSuiteErrorAborts ==
    /\ proc.up = "insert_suite"
    /\ proc' = [proc EXCEPT !.index = @ + 1, !.clean = FALSE, !.up = "done"]
    /\ Logged("insert_suite_error")
    /\ UNCHANGED <<drafts, storeVars, scenariosFile, summaryEntries, dispatched,
                   executions, history, pureVars, webVars>>

\* lines 227-230: the suite insert is rejected; continue with the next persona
InsertSuiteError ==
    /\ proc.up = "insert_suite"
    /\ proc' = [proc EXCEPT !.index = @ + 1, !.clean = FALSE,
                            !.up = loopNext(proc.index + 1,
                                            Len(limitedPersonas(proc.scenarios)))]
    /\ Logged("insert_suite_error")
    /\ UNCHANGED <<drafts, storeVars, scenariosFile, summaryEntries, dispatched,
                   executions, history, pureVars, webVars>>

\* lines 234-250: the deduplicated tests of the persona are upserted
UpsertTests ==
    /\ proc.up = "upsert_tests"
    /\ LET persona == limitedPersonas(proc.scenarios)[proc.index]
           records == testRecords(proc.suiteId, personaGroup(proc.scenarios, persona))
       IN  /\ ~conflictInBatch(records)
           /\ tests' = upsertTests(tests, records)
    /\ proc' = [proc EXCEPT !.index = @ + 1,
                            !.up = loopNext(proc.index + 1,
                                            Len(limitedPersonas(proc.scenarios)))]
    /\ Logged("upsert_tests")
    /\ UNCHANGED <<drafts, results, suites, scenariosFile, summaryEntries, dispatched,
                   executions, history, pureVars, webVars>>

\* lines 252-254: the upsert is rejected; logged, the loop goes on
UpsertTestsError ==
    /\ proc.up = "upsert_tests"
    /\ proc' = [proc EXCEPT !.index = @ + 1, !.clean = FALSE,
                            !.up = loopNext(proc.index + 1,
                                            Len(limitedPersonas(proc.scenarios)))]
    /\ Logged("upsert_tests_error")
    /\ UNCHANGED <<drafts, storeVars, scenariosFile, summaryEntries, dispatched,
                   executions, history, pureVars, webVars>>

\* variant: the upload is started but not awaited
uploadNotAwaited(up) == TRUE

\* await this.uploadScenariosToDatabase(scenarios): resumes when the upload returned
uploadSettled(up) == up = "done"

\* analyzePR returns; main goes on to runTests (full) or ends (analyze)
AnalyzeReturn ==
    /\ proc.pc = "await_upload"
    /\ uploadSettled(proc.up)
    /\ proc' = IF proc.mode = "analyze" THEN Exit(0)
                ELSE [proc EXCEPT !.pc = "runTests"]
    /\ UNCHANGED <<drafts, storeVars, scenariosFile, summaryEntries, log, dispatched,
                   executions, history, pureVars, webVars>>

\* variant: the test phase picks up the latest run of the store
LoadScenariosWithRun ==
    /\ proc.pc = "load_scenarios"
    /\ proc' = IF ~scenariosFile.exists THEN Exit(1)
                ELSE [proc EXCEPT !.scenarios = scenariosFile.content,
                                  !.resultId = Len(results),
                                  !.pc = "runTests"]
    /\ UNCHANGED <<drafts, storeVars, scenariosFile, summaryEntries, log, dispatched,
                   executions, history, pureVars, webVars>>

\* main, 'test' mode, line 458: read test-scenarios.json (throws when it is missing)
LoadScenarios ==
    /\ proc.pc = "load_scenarios"
    /\ proc' = IF ~scenariosFile.exists THEN Exit(1)
                ELSE [proc EXCEPT !.scenarios = scenariosFile.content,
                                  !.pc = "runTests"]
    /\ UNCHANGED <<drafts, storeVars, scenariosFile, summaryEntries, log, dispatched,
                   executions, history, pureVars, webVars>>

\* variant: the result id is not checked before the call
canDispatchWithoutRun(endpoint, resultId) == endpoint

\* runTests, lines 132-139: the two checks that throw before the call
canDispatch(endpoint, resultId) == endpoint /\ resultId # NoId

\* runTests, lines 125-152: the checks, then the POST to /run-result
CallAgent ==
    /\ proc.pc = "runTests"
    /\ IF canDispatch(proc.endpoint, proc.resultId)
       THEN /\ proc' = [proc EXCEPT !.pc = "agent_call"]
            /\ Logged("agent_call")
            /\ dispatched' = dispatched \cup {proc.resultId}
       ELSE /\ proc' = [proc EXCEPT !.pc = "catch"]
            /\ UNCHANGED <<log, dispatched>>
    /\ UNCHANGED <<drafts, storeVars, scenariosFile, summaryEntries, executions, history,
                   pureVars, webVars>>

\* variant: any response envelope is taken for a success
acceptedAnyStatus(status) == TRUE

\* line 154: the only accepted response
accepted(status) == status = "success"

\* the call returns a response envelope
AgentResponse(status) ==
    /\ proc.pc = "agent_call"
    /\ proc' = [proc EXCEPT !.response = status,
                            !.pc = IF accepted(status) THEN "verify" ELSE "catch"]
    /\ Logged("agent_returned")
    /\ UNCHANGED <<drafts, storeVars, scenariosFile, summaryEntries, dispatched, executions,
                   history, pureVars, webVars>>

\* variant: a failed call is issued again
AgentCallRetried ==
    /\ proc.pc = "agent_call"
    /\ proc' = [proc EXCEPT !.response = "threw", !.pc = "runTests"]
    /\ Logged("agent_threw")
    /\ UNCHANGED <<drafts, storeVars, scenariosFile, summaryEntries, dispatched,
                   executions, history, pureVars, webVars>>

\* the call rejects: network error, or axios' timeout (agentTimeout + 60000) expires
AgentCallFails ==
    /\ proc.pc = "agent_call"
    /\ proc' = [proc EXCEPT !.response = "threw", !.pc = "catch"]
    /\ Logged("agent_threw")
    /\ UNCHANGED <<drafts, storeVars, scenariosFile, summaryEntries, dispatched, executions,
                   history, pureVars, webVars>>

\* variant: the catch block leaves the run marked as running
abortStatusRunning == "RUNNING"

\* the status written by the catch block
abortStatus == "FAILED"

\* lines 163-175: with a result id, update the run; return false
CatchUpdate ==
    /\ proc.pc = "catch"
    /\ proc.resultId # NoId
    /\ results' = updateRunStatus(results, proc.resultId, abortStatus)
    /\ proc' = [proc EXCEPT !.testSuccess = "false", !.pc = "tests_done"]
    /\ Logged("update_run")
    /\ UNCHANGED <<drafts, suites, tests, scenariosFile, summaryEntries, dispatched,
                   executions, history, pureVars, webVars>>

\* the update is rejected by the store: the error object is ignored
CatchUpdateError ==
    /\ proc.pc = "catch"
    /\ proc.resultId # NoId
    /\ proc' = [proc EXCEPT !.testSuccess = "false", !.pc = "tests_done"]
    /\ Logged("update_run_error")
    /\ UNCHANGED <<drafts, storeVars, scenariosFile, summaryEntries, dispatched,
                   executions, history, pureVars, webVars>>

\* no result id: nothing to update
CatchNoRun ==
    /\ proc.pc = "catch"
    /\ proc.resultId = NoId
    /\ proc' = [proc EXCEPT !.testSuccess = "false", !.pc = "tests_done"]
    /\ UNCHANGED <<drafts, storeVars, scenariosFile, summaryEntries, log, dispatched,
                   executions, history, pureVars, webVars>>

\* lines 160-162 and 378-405: the hierarchy is read and judged
Verify ==
    /\ proc.pc = "verify"
    /\ LET result == readHierarchy(proc.resultId)
       IN  /\ proc' = [proc EXCEPT !.result = result,
                                   !.testSuccess = verifyFinalResults(result),
                                   !.pc = "tests_done"]
           /\ history' = IF proc.clean THEN Append(history, totalTests(result))
                         ELSE history
    /\ Logged("verify")
    /\ UNCHANGED <<drafts, storeVars, scenariosFile, summaryEntries, dispatched, executions,
                   pureVars, webVars>>

\* the read fails: data is null and the method returns undefined
VerifyReadError ==
    /\ proc.pc = "verify"
    /\ proc' = [proc EXCEPT !.result = NoResult,
                            !.testSuccess = verifyFinalResults(NoResult),
                            !.pc = "tests_done"]
    /\ Logged("verify")
    /\ UNCHANGED <<drafts, storeVars, scenariosFile, summaryEntries, dispatched, executions,
                   history, pureVars, webVars>>

\* variant: the summary is updated whatever the test phase returned
TestsDoneAlwaysUpdates ==
    /\ proc.pc = "tests_done"
    /\ proc' = IF Truthy(proc.testSuccess) THEN Exit(0) ELSE Exit(1)
    /\ summaryEntries' = IF proc.mode = "full" THEN summaryEntries + 1
                         ELSE summaryEntries
    /\ UNCHANGED <<drafts, storeVars, scenariosFile, log, dispatched, executions,
                   history, pureVars, webVars>>

\* main, lines 459-461 and 475-485
TestsDone ==
    /\ proc.pc = "tests_done"
    /\ proc' = IF Truthy(proc.testSuccess) THEN Exit(0) ELSE Exit(1)
    /\ summaryEntries' = IF Truthy(proc.testSuccess) /\ proc.mode = "full"
                         THEN summaryEntries + 1 ELSE summaryEntries
    /\ UNCHANGED <<drafts, storeVars, scenariosFile, log, dispatched, executions,
                   history, pureVars, webVars>>

\* main, 'update' mode, lines 463-467
UpdateSummary ==
    /\ proc.pc = "update"
    /\ proc' = Exit(0)
    /\ summaryEntries' = summaryEntries + 1
    /\ UNCHANGED <<drafts, storeVars, scenariosFile, log, dispatched, executions,
                   history, pureVars, webVars>>

-----------------------------------------------------------------------------
(* updateTestResults: per-test updates by name, then the run-level rollup *)

\* result.success as handed over by the caller; "undefined" is an absent field
Successes == {"true", "false", "null", "undefined"}

AgentResult(description, success) == [description |-> description, success |-> success]

AgentResults == {AgentResult(d, v) : d \in {"d1", "d2", "d3"}, v \in Successes}

Batches == SeqsUpTo(AgentResults, MaxBatch)

\* .update({ test_success: result.success, run_status: result.success ? 'PASSED' :
\* 'FAILED' }).eq('name', result.scenario.description); an undefined test_success is
\* left out of the request body, so the column keeps its value
updateTest(table, r) ==
    {IF t.name = r.description
     THEN [t EXCEPT !.test_success = IF r.success = "undefined" THEN @ ELSE r.success,
                    !.run_status = IF r.success = "true" THEN "PASSED" ELSE "FAILED"]
     ELSE t : t \in table}

\* for (const result of results) ...
RECURSIVE updateTests(_, _)
updateTests(table, batch) ==
    IF Len(batch) = 0 THEN table
    ELSE updateTest(updateTests(table, SubSeq(batch, 1, Len(batch) - 1)),
                    batch[Len(batch)])

\* .from('tests').select('test_success').in('suite_id', suites.map(s => s.id))
allTests(testTable, suiteTable, runId) ==
    IF runId = NoId THEN {}
    ELSE {t \in testTable : t.suite_id \in Range(suiteIdsOf(suiteTable, runId))}

\* variant: a test without a false outcome counts as passed
rollupNotFailed(all) == Cardinality({t \in all : t.test_success # "false"})

\* allTests.filter(test => test.test_success === true).length
rollupPassed(all) == Cardinality({t \in all : t.test_success = "true"})

rollupTotal(all) == Cardinality(all)

allTestsPassed(all) == rollupTotal(all) > 0 /\ rollupPassed(all) = rollupTotal(all)

\* lines 309-317: the run row is written only when the run has tests
rollupWrite(table, runId, all) ==
    IF rollupTotal(all) > 0
    THEN [table EXCEPT ![runId] =
             [@ EXCEPT !.run_status = IF allTestsPassed(all) THEN "PASSED" ELSE "FAILED",
                       !.overall_result = overallResult(rollupPassed(all),
                                                        rollupTotal(all))]]
    ELSE table

\* the tests and results tables after updateTestResults(batch); runWritten is
\* whether the store accepts the run update (its error is not looked at)
updateTestResults(batch, runWritten) ==
    LET updated == updateTests(tests, batch)
        all == allTests(updated, suites, proc.resultId)
    IN  [tests |-> updated,
         results |-> IF runWritten THEN rollupWrite(results, proc.resultId, all)
                     ELSE results]

\* updateTestResults(results), called on the pipeline object between the upload and
\* the end of the process
UpdateTestResults(batch, runWritten) ==
    /\ proc.pc \in {"agent_call", "catch", "verify", "tests_done"}
    /\ tests' = updateTestResults(batch, runWritten).tests
    /\ results' = updateTestResults(batch, runWritten).results
    /\ UNCHANGED <<drafts, suites, scenariosFile, summaryEntries, proc, log, dispatched,
                   executions, history, pureVars, webVars>>

-----------------------------------------------------------------------------
(* The execution agent: marks tests of a run it was called with *)

outcomeStatus(outcome) == IF outcome = "true" THEN "PASSED" ELSE "FAILED"

AgentMarksTest(t, outcome) ==
    /\ t \in tests
    /\ t.test_success = "null"
    /\ suites[t.suite_id].result_id \in dispatched
    /\ tests' = (tests \ {t})
                  \cup {[t EXCEPT !.test_success = outcome,
                                  !.run_status = outcomeStatus(outcome)]}
    /\ UNCHANGED <<drafts, results, suites, scenariosFile, summaryEntries, proc, log,
                   dispatched, executions, history, pureVars, webVars>>

-----------------------------------------------------------------------------
(* Frame of the specifications that do not run the pipeline *)

coreVars == <<drafts, storeVars, scenariosFile, summaryEntries, proc, log, dispatched,
              executions, history, pureVars>>

CoreIdle(f) ==
    /\ family = f
    /\ drafts = <<>>
    /\ results = <<>> /\ suites = <<>> /\ tests = {}
    /\ scenariosFile = NoFile /\ summaryEntries = 0
    /\ proc = Idle /\ log = <<>> /\ dispatched = {} /\ executions = 0
    /\ history = <<>>
    /\ built = NotBuilt
    /\ snapshot = NoResult /\ verdict = "unset"

-----------------------------------------------------------------------------
(* The Express API (backend/cicd/analyze-pr.js): the routes that create, update and
   list suites and tests.  A key absent from the JSON body reads as undefined after
   destructuring; null is a value like any other.  id is the key of a table: the
   routes select single rows by it.  A column an insert does not name is null (NoId
   for a reference). *)

MaxApiRows == 1                \* ids a request can name as result or suite

Undefined == "undefined"
FlagValues == {"true", "false"}
LinkValues == {"null", "s3://run"}
SummaryValues == {"null", "done"}

ApiIds == 1..MaxApiRows
RequestIds == 1..(MaxApiRows + 1)      \* the last one matches no row

SuiteBodies == [suitesSuccess : FlagValues \cup {Undefined},
                s3Link : LinkValues \cup {Undefined}]
TestBodies == [testSuccess : FlagValues \cup {Undefined},
               summary : SummaryValues \cup {Undefined}]

PostSuiteBodies == [resultId : ApiIds, s3Link : LinkValues \cup {Undefined},
                    suitesSuccess : FlagValues \cup {Undefined}]
PostTestBodies == [suiteId : ApiIds, summary : SummaryValues \cup {Undefined},
                   testSuccess : FlagValues \cup {Undefined}]

NoRequest == [route |-> "none", id |-> 0, body |-> <<>>, status |-> 0, data |-> <<>>]

\* x || false, for the values a flag takes
orFalse(x) == IF x = "true" THEN "true" ELSE "false"

\* an absent key is left out of the JSON sent to the store
orNull(x) == IF x = Undefined THEN "null" ELSE x

\* the row POST /suites inserts
newSuiteRow(body) ==
    [name |-> "suite", s3_link |-> orNull(body.s3Link),
     suites_success |-> orFalse(body.suitesSuccess), result_id |-> NoId]

\* the row POST /tests inserts
newTestRow(body) ==
    [name |-> "test", summary |-> orNull(body.summary),
     test_success |-> orFalse(body.testSuccess), suite_id |-> NoId]

\* insert([{ id: ..., ... }]) of a row under a key the table does not hold yet
insertRow(table, id, row) ==
    [i \in DOMAIN table \cup {id} |-> IF i = id THEN row ELSE table[i]]

\* from('suites').select('*').eq('result_id', id): the ids of the rows returned
listSuites(resultId) == {i \in DOMAIN apiSuites : apiSuites[i].result_id = resultId}

\* from('tests').select('*').eq('suite_id', id): the ids of the rows returned
listTests(suiteId) == {i \in DOMAIN apiTests : apiTests[i].suite_id = suiteId}

\* POST /suites answered 200
PostSuite(body) ==
    /\ body.resultId \notin DOMAIN apiSuites
    /\ apiSuites' = insertRow(apiSuites, body.resultId, newSuiteRow(body))
    /\ apiResponse' = [route |-> "POST /suites", id |-> body.resultId, body |-> body,
                       status |-> 200, data |-> newSuiteRow(body)]
    /\ UNCHANGED <<apiTests, coreVars, summaryVars, appVars>>

\* POST /suites answered 500: the store reported an error (a row with this id being
\* there already included)
PostSuiteError(body) ==
    /\ apiResponse' = [route |-> "POST /suites", id |-> body.resultId, body |-> body,
                       status |-> 500, data |-> <<>>]
    /\ UNCHANGED <<apiSuites, apiTests, coreVars, summaryVars, appVars>>

\* POST /tests answered 200
PostTest(body) ==
    /\ body.suiteId \notin DOMAIN apiTests
    /\ apiTests' = insertRow(apiTests, body.suiteId, newTestRow(body))
    /\ apiResponse' = [route |-> "POST /tests", id |-> body.suiteId, body |-> body,
                       status |-> 200, data |-> newTestRow(body)]
    /\ UNCHANGED <<apiSuites, coreVars, summaryVars, appVars>>

\* POST /tests answered 500
PostTestError(body) ==
    /\ apiResponse' = [route |-> "POST /tests", id |-> body.suiteId, body |-> body,
                       status |-> 500, data |-> <<>>]
    /\ UNCHANGED <<apiSuites, apiTests, coreVars, summaryVars, appVars>>

\* GET /results/:id/suites answered 200
ListSuites(id) ==
    /\ apiResponse' = [route |-> "GET /results/:id/suites", id |-> id, body |-> <<>>,
                       status |-> 200, data |-> listSuites(id)]
    /\ UNCHANGED <<apiSuites, apiTests, coreVars, summaryVars, appVars>>

\* GET /suites/:id/tests answered 200
ListTests(id) ==
    /\ apiResponse' = [route |-> "GET /suites/:id/tests", id |-> id, body |-> <<>>,
                       status |-> 200, data |-> listTests(id)]
    /\ UNCHANGED <<apiSuites, apiTests, coreVars, summaryVars, appVars>>

\* a list route answered 500: the store reported an error
ListError(route, id) ==
    /\ apiResponse' = [route |-> route, id |-> id, body |-> <<>>, status |-> 500,
                       data |-> <<>>]
    /\ UNCHANGED <<apiSuites, apiTests, coreVars, summaryVars, appVars>>

\* updateData of PATCH /suites/:id: the columns the request supplies
suiteUpdateData(body) ==
    {c \in {"suites_success", "s3_link"} :
        \/ c = "suites_success" /\ body.suitesSuccess # Undefined
        \/ c = "s3_link" /\ body.s3Link # Undefined}

patchSuiteRowAllFields(row, body) ==
    [row EXCEPT !.suites_success = IF body.suitesSuccess = Undefined THEN "null"
                                   ELSE body.suitesSuccess,
                !.s3_link = IF body.s3Link = Undefined THEN "null" ELSE body.s3Link]

\* supabase.from('suites').update(updateData).eq('id', id) applied to one row
patchSuiteRow(row, body) ==
    [row EXCEPT
        !.suites_success = IF "suites_success" \in suiteUpdateData(body)
                           THEN body.suitesSuccess ELSE @,
        !.s3_link = IF "s3_link" \in suiteUpdateData(body) THEN body.s3Link ELSE @]

\* updateData of PATCH /tests/:id
testUpdateData(body) ==
    {c \in {"test_success", "summary"} :
        \/ c = "test_success" /\ body.testSuccess # Undefined
        \/ c = "summary" /\ body.summary # Undefined}

patchTestRow(row, body) ==
    [row EXCEPT
        !.test_success = IF "test_success" \in testUpdateData(body)
                         THEN body.testSuccess ELSE @,
        !.summary = IF "summary" \in testUpdateData(body) THEN body.summary ELSE @]

\* PATCH /suites/:id answered 200: the update matched the row and returned it
PatchSuite(id, body) ==
    /\ id \in DOMAIN apiSuites
    /\ apiSuites' = [apiSuites EXCEPT ![id] = patchSuiteRow(@, body)]
    /\ apiResponse' = [route |-> "PATCH /suites/:id", id |-> id, body |-> body,
                       status |-> 200, data |-> apiSuites'[id]]
    /\ UNCHANGED <<apiTests, coreVars, summaryVars, appVars>>

\* PATCH /suites/:id answered 500: the store reported an error (single() finding no
\* row for the id included) and the statement changed nothing
PatchSuiteError(id, body) ==
    /\ apiResponse' = [route |-> "PATCH /suites/:id", id |-> id, body |-> body,
                       status |-> 500, data |-> <<>>]
    /\ UNCHANGED <<apiSuites, apiTests, coreVars, summaryVars, appVars>>

\* PATCH /tests/:id answered 200
PatchTest(id, body) ==
    /\ id \in DOMAIN apiTests
    /\ apiTests' = [apiTests EXCEPT ![id] = patchTestRow(@, body)]
    /\ apiResponse' = [route |-> "PATCH /tests/:id", id |-> id, body |-> body,
                       status |-> 200, data |-> apiTests'[id]]
    /\ UNCHANGED <<apiSuites, coreVars, summaryVars, appVars>>

\* PATCH /tests/:id answered 500
PatchTestError(id, body) ==
    /\ apiResponse' = [route |-> "PATCH /tests/:id", id |-> id, body |-> body,
                       status |-> 500, data |-> <<>>]
    /\ UNCHANGED <<apiSuites, apiTests, coreVars, summaryVars, appVars>>

ApiIdle == apiSuites = <<>> /\ apiTests = <<>> /\ apiResponse = NoRequest


-----------------------------------------------------------------------------
(* update-summary.js: the summary text is modelled by what split('=== UPDATE ')
   returns for it, a sequence of sections: section 1 is the text before the first
   header, every later section is the text that follows one header.  A section
   records its length and the entry whose text it holds (0: no entry). *)

MaxUpdates == 50               \* updateCount > 50 trims
MaxChars == 10000              \* updatedSummary.length > 10000 trims
KeptSections == 25             \* slice(-25)
HeaderLen == 11                \* '=== UPDATE '.length

MaxExistingUpdates == 50       \* entries of the summary found on disk
MaxSummaryRuns == 2            \* runs of the script in one behaviour

ExistingLens == {90, 400}      \* text after the header, entries already on disk
EntryLens == {90, 400, 9000}   \* text after the header, the entry of this run

NoSummaryRun == [runs |-> 0, entries |-> 0, outcome |-> "none", updated |-> <<>>]

RECURSIVE sectionChars(_)
sectionChars(sections) ==
    IF sections = <<>> THEN 0
    ELSE sections[1].len + sectionChars(Tail(sections))

\* updatedSummary.length
summaryLength(sections) == sectionChars(sections) + HeaderLen * (Len(sections) - 1)

\* (updatedSummary.match(/=== UPDATE/g) || []).length
updateCount(sections) == Len(sections) - 1

\* existingSummary + updateEntry: the entry opens with a newline, which ends the
\* section before it, then its header
appendEntry(sections, e) ==
    Append([sections EXCEPT ![Len(sections)].len = @ + 1], e)

\* split('=== UPDATE ').slice(-25), then map and join: the first element kept is
\* written without a header, every other one after a header
lastSections(sections) ==
    IF Len(sections) <= KeptSections THEN sections
    ELSE SubSeq(sections, Len(sections) - KeptSections + 1, Len(sections))

finalSummary(updated) ==
    IF updateCount(updated) > MaxUpdates \/ summaryLength(updated) > MaxChars
    THEN lastSections(updated)
    ELSE updated

\* a summary of n entries written by earlier runs, each of the same length
existingSummary(n, len) ==
    [i \in 1..(n + 1) |->
        IF i = 1 THEN [entry |-> 0, len |-> IF n = 0 THEN 0 ELSE 1]
        ELSE [entry |-> i - 1, len |-> IF i = n + 1 THEN len ELSE len + 1]]

\* what earlier runs can have left: a summary they did not have to trim, or one that
\* slice(-25) returns whole
leftByEarlierRuns(sections) ==
    \/ Len(sections) <= KeptSections
    \/ updateCount(sections) <= MaxUpdates /\ summaryLength(sections) <= MaxChars

\* one run of the script: append, trim, writeFileSync
UpdateCodebaseSummaryFile(len) ==
    /\ summaryRun.runs < MaxSummaryRuns
    /\ LET e == [entry |-> summaryRun.entries + 1, len |-> len]
           updated == appendEntry(summaryFile, e)
       IN  /\ summaryFile' = finalSummary(updated)
           /\ summaryRun' = [runs |-> summaryRun.runs + 1,
                             entries |-> summaryRun.entries + 1,
                             outcome |-> "saved", updated |-> updated]
    /\ UNCHANGED <<coreVars, apiVars, appVars>>

\* one run whose PR lookup throws: the catch block logs and nothing is written
UpdateCodebaseSummaryFileFails ==
    /\ summaryRun.runs < MaxSummaryRuns
    /\ summaryRun' = [summaryRun EXCEPT !.runs = @ + 1, !.outcome = "error",
                                        !.updated = <<>>]
    /\ UNCHANGED <<summaryFile, coreVars, apiVars, appVars>>

SummaryIdle == summaryFile = <<>> /\ summaryRun = NoSummaryRun


-----------------------------------------------------------------------------
(* app.js: the login demo page.  The file holds two scripts, one keeping the session
   in localStorage and one keeping it in memory and broadcasting through
   localStorage; a page runs one of them (variant).  Strings the user types are
   sequences of characters, so that trim() is computed.  Forms and buttons belong to
   the view their names say and are used only while that view is shown. *)

MaxPendingEvents == 1          \* storage events queued for one tab

Tabs == {1, 2}
Variants == {"localStorage", "memory"}

VALID_CREDENTIALS ==
    [username |-> <<"t", "e", "s", "t">>,
     password |-> <<"t", "e", "s", "t", "1", "2", "3">>]
SESSION_KEY == "qa_demo_session_v1"
BROADCAST_KEY == "qa_demo_broadcast_v1"

Usernames == {<<"t", "e", "s", "t">>, <<" ", "t", "e", "s", "t", " ">>,
              <<"t", "e", " ", "s", "t">>}
Passwords == {<<"t", "e", "s", "t", "1", "2", "3">>,
              <<" ", "t", "e", "s", "t", "1", "2", "3">>}
Colors == {<<" ">>, <<"r", "e", "d">>}

InvalidCredentials == "Invalid credentials. Use test / test123"
LoggedOut == "You have been logged out."
SessionExpired == "Session expired. Please sign in again."

NoItem == [loggedIn |-> FALSE, user |-> <<>>]      \* getItem returns null
NoPayload == "null"
LoggedOutSession == [loggedIn |-> FALSE, user |-> <<>>]   \* { loggedIn: false, user: null }

RECURSIVE trimStart(_)
trimStart(s) == IF s # <<>> /\ Head(s) = " " THEN trimStart(Tail(s)) ELSE s

RECURSIVE trimEnd(_)
trimEnd(s) ==
    IF s # <<>> /\ s[Len(s)] = " " THEN trimEnd(SubSeq(s, 1, Len(s) - 1)) ELSE s

\* String.prototype.trim
trim(s) == trimEnd(trimStart(s))

validCredentialsTrimmed(username, password) ==
    /\ trim(username) = VALID_CREDENTIALS.username
    /\ trim(password) = VALID_CREDENTIALS.password

\* the test of the login handler on the two input values
validCredentials(username, password) ==
    /\ trim(username) = VALID_CREDENTIALS.username
    /\ password = VALID_CREDENTIALS.password

\* the document as DOMContentLoaded finds it
FreshTab ==
    [view |-> "none", loginError |-> "", loginInfo |-> "", whoami |-> <<>>,
     banner |-> FALSE, formMessage |-> <<>>, session |-> LoggedOutSession]

getSession(t) ==
    IF variant = "localStorage" THEN localStorage.session ELSE tabs[t].session

isAuthenticated(t) == getSession(t).loggedIn = TRUE

showLogin(tab, message) ==
    [tab EXCEPT !.view = "login", !.loginInfo = message, !.loginError = ""]

showDashboardKeepsBanner(tab, s) ==
    [tab EXCEPT !.view = "dashboard", !.whoami = s.user, !.formMessage = <<>>]

\* showDashboard, s being what getSession() returns when it runs
showDashboard(tab, s) ==
    [tab EXCEPT !.view = "dashboard", !.whoami = s.user, !.banner = FALSE,
                !.formMessage = <<>>]

\* a write to localStorage queues a storage event in every other tab
notifyOthers(t, key, newValue) ==
    [o \in Tabs |-> IF o = t THEN pending[o]
                    ELSE Append(pending[o], [key |-> key, newValue |-> newValue])]

canNotifyOthers(t) == \A o \in Tabs \ {t} : Len(pending[o]) < MaxPendingEvents

act(kind, t, username, password, color) ==
    [kind |-> kind, tab |-> t, username |-> username, password |-> password,
     color |-> color]

\* DOMContentLoaded (the page is opened or reloaded in tab t): initialRender
LoadPage(t) ==
    /\ tabs' = [tabs EXCEPT ![t] =
                   IF variant = "localStorage" /\ localStorage.session.loggedIn
                   THEN showDashboard(FreshTab, localStorage.session)
                   ELSE showLogin(FreshTab, "")]
    /\ pending' = [pending EXCEPT ![t] = <<>>]
    /\ lastAct' = act("load", t, <<>>, <<>>, <<>>)
    /\ UNCHANGED <<variant, localStorage, coreVars, apiVars, summaryVars>>

\* loginForm submit
LoginSubmit(t, username, password) ==
    /\ tabs[t].view = "login"
    /\ lastAct' = act("login_submit", t, username, password, <<>>)
    /\ IF validCredentials(username, password)
       THEN LET s == [loggedIn |-> TRUE, user |-> trim(username)]
            IN  /\ canNotifyOthers(t)
                /\ IF variant = "localStorage"
                   THEN /\ localStorage' = [localStorage EXCEPT !.session = s]
                        /\ pending' = notifyOthers(t, SESSION_KEY, "session")
                        /\ tabs' = [tabs EXCEPT ![t] = showDashboard(@, s)]
                   ELSE /\ localStorage' = [localStorage EXCEPT !.broadcast = "login"]
                        /\ pending' = notifyOthers(t, BROADCAST_KEY, "login")
                        /\ tabs' = [tabs EXCEPT ![t] =
                                       showDashboard([@ EXCEPT !.session = s], s)]
       ELSE /\ tabs' = [tabs EXCEPT ![t].loginError = InvalidCredentials]
            /\ UNCHANGED <<localStorage, pending>>
    /\ UNCHANGED <<variant, coreVars, apiVars, summaryVars>>

\* logoutButton click
LogoutClick(t) ==
    /\ tabs[t].view = "dashboard"
    /\ canNotifyOthers(t)
    /\ lastAct' = act("logout_click", t, <<>>, <<>>, <<>>)
    /\ IF variant = "localStorage"
       THEN /\ localStorage' = [localStorage EXCEPT !.session = NoItem]
            \* removeItem of a key that is not there fires no event
            /\ pending' = IF localStorage.session = NoItem THEN pending
                          ELSE notifyOthers(t, SESSION_KEY, NoPayload)
            /\ tabs' = [tabs EXCEPT ![t] = showLogin(@, LoggedOut)]
       ELSE /\ localStorage' = [localStorage EXCEPT !.broadcast = "logout"]
            /\ pending' = notifyOthers(t, BROADCAST_KEY, "logout")
            /\ tabs' = [tabs EXCEPT ![t] =
                           showLogin([@ EXCEPT !.session = LoggedOutSession], LoggedOut)]
    /\ UNCHANGED <<variant, coreVars, apiVars, summaryVars>>

DemoSubmitUnchecked(t, color) ==
    /\ tabs[t].view = "dashboard"
    /\ lastAct' = act("demo_submit", t, <<>>, <<>>, color)
    /\ tabs' = [tabs EXCEPT ![t].formMessage =
                   IF trim(color) # <<>> THEN <<"Submitted: ", trim(color)>>
                   ELSE <<"Submitted.">>]
    /\ UNCHANGED <<variant, localStorage, pending, coreVars, apiVars, summaryVars>>

\* demoForm submit
DemoSubmit(t, color) ==
    /\ tabs[t].view = "dashboard"
    /\ lastAct' = act("demo_submit", t, <<>>, <<>>, color)
    /\ tabs' = [tabs EXCEPT ![t] =
                   IF ~isAuthenticated(t) THEN showLogin(@, SessionExpired)
                   ELSE [@ EXCEPT !.formMessage =
                            IF trim(color) # <<>> THEN <<"Submitted: ", trim(color)>>
                            ELSE <<"Submitted.">>]]
    /\ UNCHANGED <<variant, localStorage, pending, coreVars, apiVars, summaryVars>>

onSessionEventRedirects(tab, event, authed) ==
    IF event.key # SESSION_KEY THEN tab
    ELSE IF ~authed
         THEN IF tab.view = "dashboard" THEN showLogin(tab, SessionExpired) ELSE tab
         ELSE [tab EXCEPT !.banner = FALSE]

\* the storage listener of the localStorage script, for one event
onSessionEvent(tab, event, authed) ==
    IF event.key # SESSION_KEY THEN tab
    ELSE IF ~authed
         THEN IF tab.view = "dashboard" THEN [tab EXCEPT !.banner = TRUE] ELSE tab
         ELSE [tab EXCEPT !.banner = FALSE]

\* the storage listener of the in-memory script, for one event
onBroadcastEvent(tab, event) ==
    IF event.key # BROADCAST_KEY \/ event.newValue = NoPayload THEN tab
    ELSE IF event.newValue = "logout"
         THEN [tab EXCEPT !.session = LoggedOutSession,
                          !.banner = IF tab.view = "dashboard" THEN TRUE ELSE @]
         ELSE tab

\* the browser delivers the oldest storage event queued for tab t
StorageEvent(t) ==
    /\ pending[t] # <<>>
    /\ pending' = [pending EXCEPT ![t] = Tail(@)]
    /\ tabs' = [tabs EXCEPT ![t] =
                   IF variant = "localStorage"
                   THEN onSessionEvent(@, Head(pending[t]), isAuthenticated(t))
                   ELSE onBroadcastEvent(@, Head(pending[t]))]
    /\ lastAct' = act("storage", t, <<>>, <<>>, <<>>)
    /\ UNCHANGED <<variant, localStorage, coreVars, apiVars, summaryVars>>

NoAct == act("none", 0, <<>>, <<>>, <<>>)

AppIdle ==
    /\ variant = "none"
    /\ localStorage = <<>>
    /\ tabs = <<>>
    /\ pending = <<>>
    /\ lastAct = NoAct

\* the server starts on empty tables
InitApi ==
    /\ apiSuites = <<>>
    /\ apiTests = <<>>
    /\ apiResponse = NoRequest
    /\ CoreIdle("api")
    /\ SummaryIdle
    /\ AppIdle

NextApi ==
    \/ \E body \in PostSuiteBodies : PostSuite(body)
    \/ \E body \in PostSuiteBodies : PostSuiteError(body)
    \/ \E body \in PostTestBodies : PostTest(body)
    \/ \E body \in PostTestBodies : PostTestError(body)
    \/ \E id \in RequestIds : ListSuites(id)
    \/ \E id \in RequestIds : ListTests(id)
    \/ \E route \in {"GET /results/:id/suites", "GET /suites/:id/tests"},
          id \in RequestIds : ListError(route, id)
    \/ \E id \in RequestIds, body \in SuiteBodies : PatchSuite(id, body)
    \/ \E id \in RequestIds, body \in SuiteBodies : PatchSuiteError(id, body)
    \/ \E id \in RequestIds, body \in TestBodies : PatchTest(id, body)
    \/ \E id \in RequestIds, body \in TestBodies : PatchTestError(id, body)

SpecApi == InitApi /\ [][NextApi]_vars

InitSummary ==
    /\ \E n \in 0..MaxExistingUpdates, len \in ExistingLens :
           /\ leftByEarlierRuns(existingSummary(n, len))
           /\ summaryFile = existingSummary(n, len)
           /\ summaryRun = [NoSummaryRun EXCEPT !.entries = n]
    /\ CoreIdle("summary_file")
    /\ ApiIdle
    /\ AppIdle

NextSummary ==
    \/ \E len \in EntryLens : UpdateCodebaseSummaryFile(len)
    \/ UpdateCodebaseSummaryFileFails

SpecSummary == InitSummary /\ [][NextSummary]_vars

\* both tabs have the page open, nobody has signed in yet
InitApp ==
    /\ variant \in Variants
    /\ localStorage = [session |-> NoItem, broadcast |-> NoPayload]
    /\ tabs = [t \in Tabs |-> showLogin(FreshTab, "")]
    /\ pending = [t \in Tabs |-> <<>>]
    /\ lastAct = NoAct
    /\ CoreIdle("app")
    /\ ApiIdle
    /\ SummaryIdle

NextApp ==
    \/ \E t \in Tabs : LoadPage(t)
    \/ \E t \in Tabs, username \in Usernames, password \in Passwords :
          LoginSubmit(t, username, password)
    \/ \E t \in Tabs : LogoutClick(t)
    \/ \E t \in Tabs, color \in Colors : DemoSubmit(t, color)
    \/ \E t \in Tabs : StorageEvent(t)

SpecApp == InitApp /\ [][NextApp]_vars

WebIdle == ApiIdle /\ SummaryIdle /\ AppIdle

-----------------------------------------------------------------------------

Init ==
    /\ drafts \in SeqsUpTo(PipelineDrafts, MaxDrafts)
    /\ results = <<>>
    /\ suites = <<>>
    /\ tests = {}
    /\ scenariosFile = NoFile
    /\ summaryEntries = 0
    /\ proc = Idle
    /\ log = <<>>
    /\ dispatched = {}
    /\ executions = 0
    /\ history = <<>>
    /\ family = "pipeline"
    /\ built = NotBuilt
    /\ snapshot = NoResult
    /\ verdict = "unset"
    /\ WebIdle

Next ==
    \/ \E m \in Modes, ep \in BOOLEAN : Start(m, ep)
    \/ UpstreamError
    \/ GenerateScenarios
    \/ InsertRun
    \/ InsertRunError
    \/ InsertSuite
    \/ InsertSuiteError
    \/ UpsertTests
    \/ UpsertTestsError
    \/ AnalyzeReturn
    \/ LoadScenarios
    \/ CallAgent
    \/ \E status \in {"success", "error"} : AgentResponse(status)
    \/ AgentCallFails
    \/ CatchUpdate
    \/ CatchUpdateError
    \/ CatchNoRun
    \/ Verify
    \/ VerifyReadError
    \/ TestsDone
    \/ UpdateSummary
    \/ \E t \in tests, outcome \in {"true", "false"} : AgentMarksTest(t, outcome)

Spec == Init /\ [][Next]_vars

-----------------------------------------------------------------------------
(* The builder alone: analyzePR's normalisation followed by the grouping, the
   persona cap and the per-persona records of uploadScenariosToDatabase, applied
   to every draft list of an input family *)

pipelineVars == <<results, suites, tests, scenariosFile, summaryEntries, proc, log,
                  dispatched, executions, history>>

familyDrafts(f) ==
    CASE f = "personas" -> PersonaDrafts
      [] f = "suites" -> SuiteDrafts
      [] f = "dedup" -> DedupDrafts
      [] OTHER -> SummaryDrafts

familyBound(f) ==
    CASE f = "personas" -> MaxPersonaDrafts
      [] f = "suites" -> MaxSuiteDrafts
      [] f = "dedup" -> MaxDedupDrafts
      [] OTHER -> MaxSummaryDrafts

\* what a run persists when every store write succeeds
buildAll(parsed) ==
    LET scenarios == analyzeScenarios(parsed)
        personas == limitedPersonas(scenarios)
    IN  [done |-> TRUE, scenarios |-> scenarios, personas |-> personas,
         records |-> [i \in 1..Len(personas) |->
                         testRecords(i, personaGroup(scenarios, personas[i]))]]

\* the suites rows a run writes for its retained personas, ids 1..n
persistedSuites(runId, personas) ==
    [i \in 1..Len(personas) |-> [result_id |-> runId,
                                 name |-> personas[i] \o " Agent Suite"]]

\* the tests table after the upserts of the personas, in loop order
RECURSIVE persistedTests(_)
persistedTests(records) ==
    IF Len(records) = 0 THEN {}
    ELSE upsertTests(persistedTests(SubSeq(records, 1, Len(records) - 1)),
                     records[Len(records)])

InitBuild ==
    /\ family \in {"personas", "suites", "dedup", "summary"}
    /\ drafts = <<>>
    /\ built = NotBuilt
    /\ results = <<>> /\ suites = <<>> /\ tests = {}
    /\ scenariosFile = NoFile /\ summaryEntries = 0
    /\ proc = Idle /\ log = <<>> /\ dispatched = {} /\ executions = 0
    /\ history = <<>>
    /\ snapshot = NoResult /\ verdict = "unset"
    /\ WebIdle

\* the completion returns one more scenario
GenerateDraft(d) ==
    /\ ~built.done
    /\ Len(drafts) < familyBound(family)
    /\ drafts' = Append(drafts, d)
    /\ UNCHANGED <<pipelineVars, family, built, snapshot, verdict, webVars>>

Build ==
    /\ ~built.done
    /\ built' = buildAll(drafts)
    /\ UNCHANGED <<pipelineVars, drafts, family, snapshot, verdict, webVars>>

\* uploadScenariosToDatabase on an empty store, every write accepted
Persist ==
    /\ built.done
    /\ results = <<>>
    /\ results' = <<prData>>
    /\ suites' = persistedSuites(1, built.personas)
    /\ tests' = persistedTests(built.records)
    /\ UNCHANGED <<scenariosFile, summaryEntries, proc, log, dispatched, executions,
                   history, drafts, pureVars, webVars>>

NextBuild ==
    \/ \E d \in familyDrafts(family) : GenerateDraft(d)
    \/ Build
    \/ Persist

SpecBuild == InitBuild /\ [][NextBuild]_vars

-----------------------------------------------------------------------------
(* updateTestResults in a dispatched run: the state of a 'full' process whose upload
   was accepted in full and whose agent call is in flight, then the agent's answer
   and the catch block of runTests, interleaved with the agent's writes and with
   calls of updateTestResults *)

\* the calls logged by an upload of n suites followed by the agent call
dispatchLog(n) ==
    [i \in 1..(2 * n + 2) |->
        IF i = 1 THEN "insert_run"
        ELSE IF i = 2 * n + 2 THEN "agent_call"
        ELSE IF i % 2 = 0 THEN "insert_suite" ELSE "upsert_tests"]

\* the process after analyzePR and the POST of runTests
dispatchedProc(b) ==
    LET n == Len(b.personas)
    IN  [Idle EXCEPT !.mode = "full", !.endpoint = TRUE, !.pc = "agent_call",
                     !.up = "done", !.scenarios = b.scenarios, !.resultId = 1,
                     !.suiteIds = [i \in 1..n |-> <<b.personas[i], i>>],
                     !.index = n + 1, !.suiteId = IF n = 0 THEN NoId ELSE n]

InitUpdate ==
    /\ family = "rollup"
    /\ drafts \in SeqsUpTo(RollupDrafts, MaxRollupDrafts)
    /\ LET b == buildAll(drafts)
       IN  /\ results = <<prData>>
           /\ suites = persistedSuites(1, b.personas)
           /\ tests = persistedTests(b.records)
           /\ scenariosFile = [exists |-> TRUE, content |-> b.scenarios]
           /\ proc = dispatchedProc(b)
           /\ log = dispatchLog(Len(b.personas))
    /\ summaryEntries = 0
    /\ dispatched = {1}
    /\ executions = 1
    /\ history = <<>>
    /\ built = NotBuilt
    /\ snapshot = NoResult
    /\ verdict = "unset"
    /\ WebIdle

NextUpdate ==
    \/ \E batch \in Batches, runWritten \in BOOLEAN : UpdateTestResults(batch, runWritten)
    \/ \E t \in tests, outcome \in {"true", "false"} : AgentMarksTest(t, outcome)
    \/ \E status \in {"success", "error"} : AgentResponse(status)
    \/ AgentCallFails
    \/ CatchUpdate
    \/ CatchUpdateError

SpecUpdate == InitUpdate /\ [][NextUpdate]_vars

-----------------------------------------------------------------------------
(* The rollup alone: in a dispatched run whose tests the agent is marking,
   updateTestResults is called once and the hierarchy is then read back and judged
   by verifyFinalResults *)

RollupThenVerify(batch) ==
    /\ verdict = "unset"
    /\ UNCHANGED <<drafts, suites, scenariosFile, summaryEntries, proc, log, dispatched,
                   executions, history, family, built, webVars>>
    /\ tests' = updateTestResults(batch, TRUE).tests
    /\ results' = updateTestResults(batch, TRUE).results
    /\ snapshot' = readHierarchy(proc.resultId)'
    /\ verdict' = verifyFinalResults(snapshot')

NextRollup ==
    \/ \E t \in tests, outcome \in {"true", "false"} : AgentMarksTest(t, outcome)
    \/ \E batch \in Batches : RollupThenVerify(batch)

SpecRollup == InitUpdate /\ [][NextRollup]_vars

-----------------------------------------------------------------------------
(* verifyFinalResults alone, applied to every hierarchy snapshot of a run *)

RunStatuses == {"RUNNING", "PASSED", "FAILED"}
Outcomes == {"null", "true", "false"}

\* a snapshot with n suites: each test name is absent or sits in one suite
snapshotsWith(n) ==
    {[run_status |-> st,
      suites |-> [k \in 1..n |->
                    [name |-> "suite",
                     tests |-> {[name |-> t, test_success |-> out[t]]
                                  : t \in {u \in 1..MaxSnapshotTests : place[u] = k}}]]]
        : st \in RunStatuses,
          place \in [1..MaxSnapshotTests -> 0..n],
          out \in [1..MaxSnapshotTests -> Outcomes]}

SnapshotsUpTo(m) == UNION {snapshotsWith(n) : n \in 0..m}

InitVerify ==
    /\ snapshot \in SnapshotsUpTo(MaxSnapshotSuites)
    /\ verdict = "unset"
    /\ family = "verify"
    /\ drafts = <<>>
    /\ built = NotBuilt
    /\ results = <<>> /\ suites = <<>> /\ tests = {}
    /\ scenariosFile = NoFile /\ summaryEntries = 0
    /\ proc = Idle /\ log = <<>> /\ dispatched = {} /\ executions = 0
    /\ history = <<>>
    /\ WebIdle

ApplyVerify ==
    /\ verdict = "unset"
    /\ verdict' = verifyFinalResults(snapshot)
    /\ UNCHANGED <<pipelineVars, drafts, family, built, snapshot, webVars>>

NextVerify == ApplyVerify

SpecVerify == InitVerify /\ [][NextVerify]_vars

-----------------------------------------------------------------------------
(* Properties *)

InLog(e) == \E i \in 1..Len(log) : log[i] = e

CountInLog(e) == Cardinality({i \in 1..Len(log) : log[i] = e})

SuiteTestWrites == {"insert_suite", "insert_suite_error", "upsert_tests",
                    "upsert_tests_error"}

\* the tests of a hierarchy snapshot, over all its suites
TestsOf(r) == UNION {r.suites[k].tests : k \in 1..Len(r.suites)}

AllTestsTrue(r) ==
    TestsOf(r) # {} /\ \A t \in TestsOf(r) : t.test_success = "true"

RunTestsReturned == proc.pc \in {"tests_done", "exited"} /\ proc.testSuccess # "unset"

\* C1: for every hierarchy snapshot (any stored run_status, any suites, outcomes
\* null/true/false) verifyFinalResults returns success if and only if the snapshot
\* holds at least one test and every test's test_success is exactly true.
C1_SuccessIffAllTestsTrue ==
    verdict # "unset" => (Truthy(verdict) <=> AllTestsTrue(snapshot))

\* C2: when the agent call returned 'success' and the hierarchy read back holds a
\* test whose outcome is still null, runTests does not return true and the process
\* ends with a non-zero exit code.
C2_NullOutcomeNeverPasses ==
    (/\ RunTestsReturned
     /\ proc.response = "success"
     /\ \E t \in TestsOf(proc.result) : t.test_success = "null")
    => /\ ~Truthy(proc.testSuccess)
       /\ proc.pc = "exited" => proc.exitCode = 1

C2_Witness ==
    /\ proc.pc = "exited"
    /\ proc.response = "success"
    /\ \E t \in TestsOf(proc.result) : t.test_success = "null"
    /\ \E t \in TestsOf(proc.result) : t.test_success = "true"
    /\ proc.testSuccess = "false"

\* C3: when a run id exists and the agent call threw or answered with a status other
\* than 'success', runTests issues one update of that run's run_status to FAILED
\* (the record reads FAILED unless the store rejected the update) and returns false.
C3_AbortMarksRunFailed ==
    (/\ RunTestsReturned
     /\ proc.resultId # NoId
     /\ proc.response \in {"threw", "error"})
    => /\ proc.testSuccess = "false"
       /\ CountInLog("update_run") + CountInLog("update_run_error") = 1
       /\ InLog("update_run") => results[proc.resultId].run_status = "FAILED"
       /\ proc.pc = "exited" => proc.exitCode = 1

C3_Witness ==
    /\ proc.pc = "exited"
    /\ proc.response = "threw"
    /\ proc.resultId # NoId
    /\ results[proc.resultId].run_status = "FAILED"
    /\ proc.testSuccess = "false"

\* C4: verifyFinalResults is invoked only after the agent call has returned with
\* status 'success'; when the call threw or returned another status it is never
\* invoked and no hierarchy is read.
C4_VerifyOnlyAfterSuccess ==
    /\ \A i \in 1..Len(log) :
          log[i] = "verify" => /\ \E j \in 1..(i - 1) : log[j] = "agent_returned"
                               /\ proc.response = "success"
    /\ proc.response \in {"threw", "error"}
          => ~InLog("verify") /\ proc.result = NoResult

C4_Witness ==
    /\ InLog("verify")
    /\ proc.response = "success"
    /\ proc.result # NoResult

C6_PersistedBeforeDispatch ==
    \A i \in 1..Len(log) :
        log[i] = "agent_call"
        => /\ proc.up = "done"
           /\ \A j \in (i + 1)..Len(log) : log[j] \notin SuiteTestWrites

C6_Witness ==
    /\ InLog("agent_call")
    /\ CountInLog("insert_suite") = 2
    /\ CountInLog("upsert_tests") = 2
    /\ proc.pc = "exited"

\* C7: a process calls the agent endpoint at most once, only for the run it created;
\* a process whose runTests passes its checks (endpoint configured, run id obtained)
\* calls it exactly once, and a failed or timed-out call is not issued again.
C7_DispatchedExactlyOnce ==
    /\ CountInLog("agent_call") <= 1
    /\ InLog("agent_call") => InLog("insert_run") /\ proc.resultId \in dispatched
    /\ (RunTestsReturned /\ canDispatch(proc.endpoint, proc.resultId))
          => CountInLog("agent_call") = 1
    /\ Cardinality(dispatched) <= Len(results)

C7_Witness ==
    /\ proc.pc = "exited"
    /\ proc.response = "threw"
    /\ CountInLog("agent_call") = 1

\* the distinct personas of a draft list
PersonasIn(ds) == {personaOf(ds[i]) : i \in 1..Len(ds)}

FirstIndex(ds, p) == CHOOSE i \in 1..Len(ds) :
                        personaOf(ds[i]) = p /\ \A j \in 1..(i - 1) : personaOf(ds[j]) # p

\* ks lists the first n distinct personas of ds in order of first appearance
FirstDistinct(ks, ds, n) ==
    /\ Len(ks) = n
    /\ \A i \in 1..n : ks[i] \in PersonasIn(ds)
    /\ \A i, j \in 1..n : i < j => FirstIndex(ds, ks[i]) < FirstIndex(ds, ks[j])
    /\ \A p \in PersonasIn(ds) :
          FirstIndex(ds, p) < FirstIndex(ds, ks[n]) => \E i \in 1..n : ks[i] = p

\* C8: for every draft list with more than 4 distinct personas the persisted persona
\* groups are exactly 4, the first 4 distinct personas in order of first appearance.
C8_FirstFourPersonasKept ==
    (built.done /\ Cardinality(PersonasIn(drafts)) > SuiteCap)
    => FirstDistinct(built.personas, drafts, SuiteCap)

\* the drafts of persona p, and the last of them with description d
DraftsOf(ds, p) == SelectSeq(ds, LAMBDA s : personaOf(s) = p)

LastWith(ps, d) ==
    ps[CHOOSE i \in 1..Len(ps) :
          ps[i].description = d /\ \A j \in (i + 1)..Len(ps) : ps[j].description # d]

\* records holds exactly one test per distinct description of ps, with the summary
\* of the last draft of that description
OnePerDescriptionLastWins(records, ps) ==
    /\ {records[i].name : i \in 1..Len(records)}
          = {ps[i].description : i \in 1..Len(ps)}
    /\ \A i, j \in 1..Len(records) : records[i].name = records[j].name => i = j
    /\ \A i \in 1..Len(records) :
          records[i].summary = withSummary(LastWith(ps, records[i].name)).summary

\* C9: for every draft list with duplicate descriptions inside one persona group, the
\* tests built for that persona hold exactly one test per distinct description, with
\* the summary of the last draft of that description.
C9_LastDuplicateWins ==
    built.done
    => \A k \in 1..Len(built.personas) :
          OnePerDescriptionLastWins(built.records[k],
                                    DraftsOf(drafts, built.personas[k]))

\* C10: with the same drafts in every execution the tests table never holds two rows
\* of one name, and every verification of a fully persisted run reads back the same
\* total, the rerun's included.
C10_RerunIdempotent ==
    /\ \A t, u \in tests : t.name = u.name => t = u
    /\ \A i, j \in 1..Len(history) : history[i] = history[j]

C10_Witness ==
    /\ Len(history) = 2
    /\ history[2] = 2
    /\ Len(results) = 2
    /\ proc.pc = "exited"

\* the rows of the tests table owned by the suites of run runId
TestsOfRun(runId) ==
    {t \in tests : t.suite_id \in Range(suiteIdsOf(suites, runId))}

\* the upload of the current process returned after creating its run
UploadReturned == proc.up = "done" /\ proc.resultId # NoId

\* C11: after an upload in which no store write was rejected, every retained persona's
\* suite holds one test row per description of that persona's group, also when the
\* same description appears under two retained personas (one row in each suite).
C11_CrossPersonaRowsKept ==
    (UploadReturned /\ proc.clean)
    => \A k \in 1..Len(proc.suiteIds) :
          \A s \in Range(personaGroup(proc.scenarios, proc.suiteIds[k][1])) :
             \E t \in tests : t.name = s.description /\ t.suite_id = proc.suiteIds[k][2]

\* C12: when verification has read a run with zero persisted tests, it does not
\* return success and, once the process has ended, the stored run_status of that run
\* is FAILED.
C12_ZeroTestsRunFailed ==
    (/\ proc.pc = "exited"
     /\ InLog("verify")
     /\ proc.result # NoResult
     /\ totalTests(proc.result) = 0)
    => /\ ~Truthy(proc.testSuccess)
       /\ results[proc.resultId].run_status = "FAILED"

\* C15: all executions work on the same pull request; the results table never holds
\* more than one run record for it.
C15_OneRunPerChange == Len(results) <= 1

PersonaHasSuite(p) == \E k \in 1..Len(proc.suiteIds) : proc.suiteIds[k][1] = p

\* the suites rows of run runId created for persona p
SuiteRowsOf(runId, p) ==
    {i \in Range(suiteIdsOf(suites, runId)) : suites[i].name = p \o " Agent Suite"}

DescriptionsOf(scs, p) == {s.description : s \in Range(personaGroup(scs, p))}

\* C17: when the upload has returned, the suite insert of every retained persona was
\* attempted; a persona whose insert was rejected has no suite row and none of the
\* descriptions only it carries is a test of the run; every other retained persona has
\* its suite row and (unless its upsert was rejected) its tests; and a process that
\* runs the test phase with the endpoint configured still calls the agent with the
\* run id.
C17_FailedSuiteSkippedOthersKept ==
    UploadReturned
    => LET kept == limitedPersonas(proc.scenarios)
           withSuite == {kept[i] : i \in {j \in 1..Len(kept) : PersonaHasSuite(kept[j])}}
       IN  /\ CountInLog("insert_suite") + CountInLog("insert_suite_error") = Len(kept)
           /\ CountInLog("insert_suite") = Len(proc.suiteIds)
           /\ \A i \in 1..Len(kept) :
                 IF PersonaHasSuite(kept[i])
                 THEN /\ SuiteRowsOf(proc.resultId, kept[i]) # {}
                      /\ ~InLog("upsert_tests_error")
                            => \A d \in DescriptionsOf(proc.scenarios, kept[i]) :
                                  \E t \in TestsOfRun(proc.resultId) : t.name = d
                 ELSE /\ SuiteRowsOf(proc.resultId, kept[i]) = {}
                      /\ \A d \in DescriptionsOf(proc.scenarios, kept[i])
                                    \ UNION {DescriptionsOf(proc.scenarios, q)
                                               : q \in withSuite} :
                            ~\E t \in TestsOfRun(proc.resultId) : t.name = d
           /\ (RunTestsReturned /\ proc.endpoint)
                 => InLog("agent_call") /\ proc.resultId \in dispatched

C17_Witness ==
    /\ proc.pc = "exited"
    /\ proc.resultId # NoId
    /\ Len(log) > 2
    /\ log[2] = "insert_suite_error"
    /\ InLog("upsert_tests")
    /\ InLog("agent_call")
    /\ Cardinality(TestsOfRun(proc.resultId)) = 1
    /\ Len(suiteIdsOf(suites, proc.resultId)) = 1

\* verifyFinalResults ran in this process and returned true
VerifiedPass == InLog("verify") /\ proc.testSuccess = "true"

\* C18 (as stated): in every mode the process exits with code 0 if and only if
\* verifyFinalResults ran and returned success.
C18_ExitZeroIffVerified ==
    proc.pc = "exited" => (proc.exitCode = 0 <=> VerifiedPass)

\* C18 (amended): in the modes that run the test phase ('full', 'test') the process
\* exits with code 0 if and only if verifyFinalResults ran and returned success; in
\* 'analyze' and 'update' mode no verification runs, 'update' exits with code 0 and
\* 'analyze' exits with code 0 exactly when analyzePR returned.
C18_ExitZeroIffVerifiedInTestModes ==
    proc.pc = "exited"
    => /\ proc.mode \in {"full", "test"} => (proc.exitCode = 0 <=> VerifiedPass)
       /\ proc.mode = "update" => proc.exitCode = 0 /\ ~InLog("verify")
       /\ proc.mode = "analyze"
             => ~InLog("verify") /\ (proc.exitCode = 0 <=> proc.up = "done")

C18_Witness ==
    /\ proc.pc = "exited"
    /\ proc.mode = "full"
    /\ proc.exitCode = 0
    /\ VerifiedPass
    /\ Cardinality(TestsOf(proc.result)) = 2

\* the process ended inside analyzePR, before the upload was started
UpstreamFailed ==
    proc.pc = "exited" /\ proc.mode \in {"full", "analyze"} /\ proc.up = "idle"

\* C19: a process that ends on a failed metadata fetch or generation call exits with
\* code 1 and has issued no store write and no agent call: it holds no run id, and
\* when it is the first execution the three tables are empty and no run was dispatched.
C19_UpstreamFailureWritesNothing ==
    UpstreamFailed
    => /\ proc.exitCode = 1
       /\ log = <<>>
       /\ proc.resultId = NoId
       /\ executions = 1
             => results = <<>> /\ suites = <<>> /\ tests = {} /\ dispatched = {}

C19_Witness ==
    /\ UpstreamFailed
    /\ proc.mode = "full"
    /\ executions = 2
    /\ Len(results) = 1
    /\ Len(suites) = 2

\* the personas of ds that are among the first n distinct ones
FirstPersonas(ds, n) ==
    {p \in PersonasIn(ds) :
        Cardinality({q \in PersonasIn(ds) : FirstIndex(ds, q) < FirstIndex(ds, p)}) < n}

\* C20: every run in the store has at most 4 suites, no two of them named for the same
\* persona, each named for one of the first 4 distinct personas of the drafts; and
\* every test of the run carries the description of a draft of such a persona, so no
\* scenario of a 5th or later persona is stored.
C20_AtMostFourDistinctSuites ==
    \A r \in 1..Len(results) :
       LET ids == suiteIdsOf(suites, r)
           kept == FirstPersonas(drafts, SuiteCap)
       IN  /\ Len(ids) <= SuiteCap
           /\ \A i, j \in 1..Len(ids) : suites[ids[i]].name = suites[ids[j]].name => i = j
           /\ \A i \in 1..Len(ids) :
                 \E p \in kept : suites[ids[i]].name = p \o " Agent Suite"
           /\ \A t \in TestsOfRun(r) :
                 \E i \in 1..Len(drafts) :
                    /\ personaOf(drafts[i]) \in kept
                    /\ drafts[i].description = t.name
                    /\ suites[t.suite_id].name = personaOf(drafts[i]) \o " Agent Suite"

C20_Witness ==
    /\ Cardinality(PersonasIn(drafts)) = 5
    /\ Len(results) = 1
    /\ Len(suites) = SuiteCap
    /\ Cardinality(tests) = 4

\* the state InitUpdate builds for the drafts, as the pipeline reaches it
DispatchedAsBuilt ==
    (/\ proc.pc = "agent_call" /\ proc.clean /\ executions = 1
     /\ \A t \in tests : t.test_success = "null")
    => LET b == buildAll(drafts)
       IN  /\ results = <<prData>>
           /\ suites = persistedSuites(1, b.personas)
           /\ tests = persistedTests(b.records)
           /\ scenariosFile = [exists |-> TRUE, content |-> b.scenarios]
           /\ proc = dispatchedProc(b)
           /\ log = dispatchLog(Len(b.personas))
           /\ dispatched = {1}

\* the run row agrees with hierarchy h: the counts of verifyFinalResults are the
\* numbers of tests and of tests with outcome true, and a run with tests stores
\* passed, failed = total - passed and total, with status PASSED exactly when every
\* outcome is true
RollupAgrees(h, row) ==
    LET total == Cardinality(TestsOf(h))
        passed == Cardinality({t \in TestsOf(h) : t.test_success = "true"})
    IN  /\ totalTests(h) = total
        /\ passedTests(h) = passed
        /\ total > 0
              => /\ ~row.overall_result.empty
                 /\ row.overall_result.total = total
                 /\ row.overall_result.passed = passed
                 /\ row.overall_result.failed = total - passed
                 /\ row.overall_result.passed + row.overall_result.failed
                       = row.overall_result.total
                 /\ row.run_status = IF AllTestsTrue(h) THEN "PASSED" ELSE "FAILED"
                 /\ h.run_status = row.run_status

\* C13: after an updateTestResults call the run row agrees with the hierarchy as read
\* back: total = tests of all suites of the run, passed = tests whose outcome is
\* exactly true, failed = total - passed (null counts as failed), status PASSED iff
\* all are true, and verifyFinalResults returns success on it exactly in that case;
\* a run without tests is not written.
C13_RollupCounts ==
    verdict # "unset"
    => /\ RollupAgrees(snapshot, results[proc.resultId])
       /\ TestsOf(snapshot) # {} => (Truthy(verdict) <=> AllTestsTrue(snapshot))
       /\ TestsOf(snapshot) = {} => results[proc.resultId] = prData

C13_Witness ==
    /\ verdict = "false"
    /\ Len(snapshot.suites) = 2
    /\ Cardinality(TestsOf(snapshot)) = 3
    /\ Cardinality({t \in TestsOf(snapshot) : t.test_success = "true"}) = 2
    /\ Cardinality({t \in TestsOf(snapshot) : t.test_success = "null"}) = 1
    /\ results[1].overall_result = overallResult(2, 3)
    /\ results[1].run_status = "FAILED"

\* C14: once a run's stored run_status is PASSED or FAILED, no step changes it.
C14_TerminalStatusFinal ==
    [][\A r \in 1..Len(results) :
          results[r].run_status \in {"PASSED", "FAILED"}
          => results'[r].run_status = results[r].run_status]_vars

\* C16: every row of the tests table has outcome null with status RUNNING, outcome
\* true with status PASSED, or outcome false with status FAILED.
C16_OutcomeStatusConsistent ==
    \A t \in tests :
       /\ t.test_success = "null" <=> t.run_status = "RUNNING"
       /\ t.test_success = "true" <=> t.run_status = "PASSED"
       /\ t.test_success = "false" <=> t.run_status = "FAILED"

\* C21: no step of the pipeline process changes the outcome or the run-status of an
\* existing test row: every row of the tests table is, after the step, still there
\* under its name with the same test_success and run_status (the agent's steps, which
\* leave the process where it is, are the only ones exempted).
C21_OrchestratorNeverRewritesOutcome ==
    [][proc' # proc
       => \A t \in tests :
             \E u \in tests' : /\ u.name = t.name
                               /\ u.test_success = t.test_success
                               /\ u.run_status = t.run_status]_vars

\* C22: when the agent call returned 'success' and the final read gave no run row,
\* runTests does not return a truthy value and the process exits with code 1.
C22_ReadFailureIsFailure ==
    (RunTestsReturned /\ InLog("verify") /\ proc.result = NoResult)
    => /\ proc.response = "success"
       /\ proc.testSuccess \in {"undefined", "false"}
       /\ proc.pc = "exited" => proc.exitCode = 1

C22_Witness ==
    /\ proc.pc = "exited"
    /\ InLog("verify")
    /\ proc.result = NoResult
    /\ proc.testSuccess = "undefined"
    /\ proc.exitCode = 1
    /\ tests # {}

\* C23: a step of a process that holds a run id leaves every test row owned by a
\* suite of another run as it is (same suite, same outcome, same status).
C23_OtherRunsUntouched ==
    [][(proc' # proc /\ proc'.resultId # NoId)
       => \A t \in tests :
             suites[t.suite_id].result_id # proc'.resultId => t \in tests']_vars

\* C24: when a 'full' process that obtained a run id has ended (the store having
\* rejected none of its status writes), the stored run_status of its run is PASSED if
\* it exited with code 0 and FAILED otherwise.
C24_FinishedRunIsTerminal ==
    (/\ proc.pc = "exited" /\ proc.mode = "full" /\ proc.resultId # NoId
     /\ ~InLog("update_run_error"))
    => results[proc.resultId].run_status
          = IF proc.exitCode = 0 THEN "PASSED" ELSE "FAILED"

\* C26: the agent is called only by a process that obtained a run id from its own run
\* insert; a 'test' mode process issues no external call at all, its runTests returns
\* false and it exits with code 1.
C26_TestModeNeverDispatches ==
    /\ InLog("agent_call") => InLog("insert_run") /\ proc.resultId # NoId
    /\ proc.mode = "test"
          => /\ log = <<>>
             /\ proc.resultId = NoId
             /\ RunTestsReturned => proc.testSuccess = "false"
             /\ proc.pc = "exited" => proc.exitCode = 1

C26_Witness ==
    /\ proc.mode = "test"
    /\ proc.pc = "exited"
    /\ proc.endpoint
    /\ proc.testSuccess = "false"
    /\ Len(proc.scenarios) = 2
    /\ Len(results) = 1

\* C27: in 'full' mode the agent is called only after the upload returned, the
\* summary is appended to only by the step that follows a test phase which returned
\* true (and that process exits with code 0), and a process whose test phase did not
\* return true exits with code 1.
C27_SummaryOnlyAfterSuccess ==
    [][proc.mode = "full"
       => /\ InLog("agent_call") => proc.up = "done"
          /\ summaryEntries' # summaryEntries
                => /\ proc.pc = "tests_done"
                   /\ proc.testSuccess = "true"
                   /\ InLog("verify")
                   /\ summaryEntries' = summaryEntries + 1
                   /\ proc'.exitCode = 0
          /\ (proc.pc = "tests_done" /\ proc.testSuccess # "true")
                => (proc' # proc => proc'.exitCode = 1)
                   /\ summaryEntries' = summaryEntries]_vars

C27_Witness ==
    /\ proc.mode = "full"
    /\ proc.pc = "exited"
    /\ proc.exitCode = 1
    /\ InLog("agent_threw")
    /\ executions = 2
    /\ summaryEntries = 1

-----------------------------------------------------------------------------
(* Properties of the Express API, of update-summary.js and of app.js *)

ApiAnswered(route, status) == apiResponse.route = route /\ apiResponse.status = status

\* C25: a PATCH /suites/:id or PATCH /tests/:id request answered 200 writes, in the row
\* of the id, exactly the fields its body supplies and leaves the omitted field, the
\* other columns, the other rows and the other table as they were; a request answered
\* 500 leaves both tables as they were.
C25_AbsentMeansUnchanged ==
    [][/\ apiResponse'.status = 500 => apiSuites' = apiSuites /\ apiTests' = apiTests
       /\ (apiResponse'.route = "PATCH /suites/:id" /\ apiResponse'.status = 200)
          => LET id == apiResponse'.id
                 body == apiResponse'.body
             IN  /\ apiTests' = apiTests
                 /\ DOMAIN apiSuites' = DOMAIN apiSuites
                 /\ \A i \in DOMAIN apiSuites \ {id} : apiSuites'[i] = apiSuites[i]
                 /\ apiSuites'[id].name = apiSuites[id].name
                 /\ apiSuites'[id].result_id = apiSuites[id].result_id
                 /\ apiSuites'[id].suites_success =
                        IF body.suitesSuccess = Undefined
                        THEN apiSuites[id].suites_success ELSE body.suitesSuccess
                 /\ apiSuites'[id].s3_link =
                        IF body.s3Link = Undefined
                        THEN apiSuites[id].s3_link ELSE body.s3Link
                 /\ apiResponse'.data = apiSuites'[id]
       /\ (apiResponse'.route = "PATCH /tests/:id" /\ apiResponse'.status = 200)
          => LET id == apiResponse'.id
                 body == apiResponse'.body
             IN  /\ apiSuites' = apiSuites
                 /\ DOMAIN apiTests' = DOMAIN apiTests
                 /\ \A i \in DOMAIN apiTests \ {id} : apiTests'[i] = apiTests[i]
                 /\ apiTests'[id].name = apiTests[id].name
                 /\ apiTests'[id].suite_id = apiTests[id].suite_id
                 /\ apiTests'[id].test_success =
                        IF body.testSuccess = Undefined
                        THEN apiTests[id].test_success ELSE body.testSuccess
                 /\ apiTests'[id].summary =
                        IF body.summary = Undefined
                        THEN apiTests[id].summary ELSE body.summary
                 /\ apiResponse'.data = apiTests'[id]]_vars

\* a suite whose link was set keeps it through a later update of its flag alone, next
\* to a test whose summary was set and whose flag alone was then updated
C25_Witness ==
    /\ ApiAnswered("PATCH /tests/:id", 200)
    /\ apiResponse.body = [testSuccess |-> "true", summary |-> Undefined]
    /\ apiResponse.id = 1
    /\ 1 \in DOMAIN apiSuites
    /\ apiTests[1] = [name |-> "test", summary |-> "done", test_success |-> "true",
                      suite_id |-> NoId]
    /\ apiSuites[1] = [name |-> "suite", s3_link |-> "s3://run", suites_success |-> "true",
                       result_id |-> NoId]

EntriesOf(sections) == {sections[i].entry : i \in 2..Len(sections)}

\* C28: after a run of update-summary.js that saved the file: if the appended summary
\* has more than 50 entries or more than 10000 characters, the saved summary holds at
\* most 25 entries, all of them the latest entries of the appended summary, every
\* entry of the appended summary that is still there stands after its '=== UPDATE '
\* header, and the entry of this run is one of them; otherwise the saved summary is the
\* appended summary.
C28_TrimKeepsWholeEntries ==
    summaryRun.outcome = "saved"
    => LET updated == summaryRun.updated
           n == Len(updated)
           k == Len(summaryFile)
       IN  IF updateCount(updated) > MaxUpdates \/ summaryLength(updated) > MaxChars
           THEN /\ updateCount(summaryFile) <= KeptSections
                /\ k <= n
                /\ \A j \in 2..k : summaryFile[j] = updated[n - k + j]
                /\ \A i \in 2..n : \A j \in 1..k :
                       summaryFile[j].entry = updated[i].entry => j >= 2
                /\ updated[n].entry \in EntriesOf(summaryFile)
           ELSE summaryFile = updated

\* C29: a tab's session goes from not authenticated to authenticated only in a login
\* submit (of that tab, or of any tab of the localStorage script) whose trimmed user
\* name is 'test' and whose password is 'test123'; a login submit with other
\* credentials sets the login error message of its tab and changes nothing else.
C29_OnlyValidLoginAuthenticates ==
    [][/\ \A t \in Tabs :
            (~isAuthenticated(t) /\ isAuthenticated(t)')
            => /\ lastAct'.kind = "login_submit"
               /\ lastAct'.tab = t \/ variant = "localStorage"
               /\ trim(lastAct'.username) = <<"t", "e", "s", "t">>
               /\ lastAct'.password = <<"t", "e", "s", "t", "1", "2", "3">>
       /\ (/\ lastAct'.kind = "login_submit"
           /\ ~(/\ trim(lastAct'.username) = <<"t", "e", "s", "t">>
                /\ lastAct'.password = <<"t", "e", "s", "t", "1", "2", "3">>))
          => /\ tabs' = [tabs EXCEPT ![lastAct'.tab].loginError = InvalidCredentials]
             /\ tabs'[lastAct'.tab].view = "login"
             /\ localStorage' = localStorage
             /\ pending' = pending
             /\ \A t \in Tabs : isAuthenticated(t)' = isAuthenticated(t)]_vars

\* tab 1 signed in with ' test ' / 'test123' while tab 2, refused, is still on the
\* login view
C29_Witness ==
    /\ lastAct.kind = "login_submit"
    /\ lastAct.tab = 1
    /\ lastAct.username = <<" ", "t", "e", "s", "t", " ">>
    /\ isAuthenticated(1)
    /\ tabs[1].view = "dashboard"
    /\ tabs[1].whoami = <<"t", "e", "s", "t">>
    /\ tabs[2].view = "login"
    /\ tabs[2].loginError = InvalidCredentials
    /\ variant = "memory" => ~isAuthenticated(2)

\* the form message the page shows: the dashboard view holds it
shownFormMessage(t) == IF tabs[t].view = "dashboard" THEN tabs[t].formMessage ELSE <<>>

\* C30: a demo-form submit in a tab whose session is authenticated at that moment sets
\* the 'Submitted' message and stays on the dashboard; in a tab whose session is not,
\* it switches to the login view with 'Session expired. Please sign in again.', writes
\* no message and shows none.
C30_DemoSubmitRechecksAuth ==
    [][\A t \in Tabs :
         (lastAct'.kind = "demo_submit" /\ lastAct'.tab = t)
         =>   /\ tabs[t].view = "dashboard"
              /\ isAuthenticated(t)
                 => /\ tabs'[t].view = "dashboard"
                    /\ Head(tabs'[t].formMessage) \in {"Submitted.", "Submitted: "}
                    /\ isAuthenticated(t)'
              /\ ~isAuthenticated(t)
                 => /\ tabs'[t].view = "login"
                    /\ tabs'[t].loginInfo = SessionExpired
                    /\ tabs'[t].formMessage = tabs[t].formMessage
                    /\ shownFormMessage(t)' = <<>>
              /\ shownFormMessage(t)' # <<>> => isAuthenticated(t)]_vars

\* tab 1, told by the banner that tab 2 signed out, submitted the demo form and was
\* sent to the login view
C30_Witness ==
    /\ lastAct.kind = "demo_submit"
    /\ lastAct.tab = 1
    /\ tabs[1].banner
    /\ tabs[1].view = "login"
    /\ tabs[1].loginInfo = SessionExpired
    /\ tabs[1].formMessage = <<"Submitted: ", <<"r", "e", "d">>>>
    /\ tabs[2].loginInfo = LoggedOut

\* the banner the page shows: the dashboard view holds the session-status element
shownBanner(t) == tabs[t].banner /\ tabs[t].view = "dashboard"

\* the storage event delivered next to tab t tells of a logout in another tab
LogoutEventNext(t) ==
    /\ pending[t] # <<>>
    /\ \/ Head(pending[t]) = [key |-> SESSION_KEY, newValue |-> NoPayload]
       \/ Head(pending[t]) = [key |-> BROADCAST_KEY, newValue |-> "logout"]

\* the step delivers a storage event to tab t
Delivered(t) ==
    /\ lastAct'.kind = "storage"
    /\ lastAct'.tab = t
    /\ pending[t] # <<>>
    /\ pending'[t] = Tail(pending[t])

\* C31 (as stated): when the storage event of another tab's logout is delivered to a
\* tab on the dashboard, the tab unhides the banner, stays on the dashboard and is no
\* longer authenticated; delivered to a tab on the login view, it shows no banner and
\* leaves the tab on the login view.
C31_LogoutEventShowsBanner ==
    [][\A t \in Tabs :
         (Delivered(t) /\ LogoutEventNext(t))
         => /\ tabs[t].view = "dashboard"
               => /\ tabs'[t].banner
                  /\ tabs'[t].view = "dashboard"
                  /\ ~isAuthenticated(t)'
            /\ tabs[t].view = "login"
               => /\ tabs'[t].view = "login"
                  /\ tabs'[t].banner = tabs[t].banner
                  /\ ~shownBanner(t)']_vars

\* C31 (amended): the same, for the tab on the dashboard, when no session is stored at
\* the moment of the delivery (the localStorage script reads the stored session, not
\* the event); with a session stored again by then, the tab hides the banner, stays
\* on the dashboard and is authenticated.
C31_LogoutEventShowsBannerUnlessSignedInAgain ==
    [][\A t \in Tabs :
         (Delivered(t) /\ LogoutEventNext(t))
         => /\ tabs'[t].view = tabs[t].view
            /\ (tabs[t].view = "dashboard" /\ ~isAuthenticated(t)')
               => tabs'[t].banner
            /\ (tabs[t].view = "dashboard"
                /\ (variant = "localStorage" => localStorage.session = NoItem))
               => ~isAuthenticated(t)' /\ tabs'[t].banner
            /\ (tabs[t].view = "dashboard" /\ isAuthenticated(t)')
               => variant = "localStorage" /\ ~tabs'[t].banner
            /\ tabs[t].view = "login"
               => /\ ~shownBanner(t)'
                  /\ variant = "memory" => tabs'[t].banner = tabs[t].banner]_vars

\* tab 1, on the dashboard with its form message, has been told of tab 2's logout:
\* the banner is up, the tab is still on the dashboard and no longer authenticated
C31_Witness ==
    /\ lastAct.kind = "storage"
    /\ lastAct.tab = 1
    /\ tabs[1].view = "dashboard"
    /\ tabs[1].banner
    /\ ~isAuthenticated(1)
    /\ tabs[1].formMessage = <<"Submitted.">>
    /\ tabs[2].view = "login"
    /\ tabs[2].loginInfo = LoggedOut
    /\ pending[1] = <<>>

C33_CreatedIsListed ==
    /\ (apiResponse.route = "POST /suites" /\ apiResponse.status = 200)
       => \E i \in listSuites(apiResponse.body.resultId) :
             apiSuites[i] = apiResponse.data
    /\ (apiResponse.route = "POST /tests" /\ apiResponse.status = 200)
       => \E i \in listTests(apiResponse.body.suiteId) :
             apiTests[i] = apiResponse.data

====
